---- MODULE Spec2Model ----
(***************************************************************************)
(* A model of the two MRI viewers of the repository, app.py (Plotly and    *)
(* matplotlib) and streamlit.py (Mayavi): the upload / load / visualise /  *)
(* clean-up run of each script, and the pure array computations each run   *)
(* performs (normalisation, threshold masks, sub-sampling, slices and      *)
(* overlays).                                                              *)
(*                                                                         *)
(* Numbers.  Raw intensities are integers.  A value of a normalised array  *)
(* is the result of one floating-point division and is kept as a pair      *)
(* <<n, d>> with d >= 0: d > 0 is the rational n/d, and d = 0 is one of    *)
(* the IEEE results of a division by zero, NaN (0/0), +Inf (x/0, x > 0) or *)
(* -Inf (x/0, x < 0).  numpy divides by zero with a warning, never with an *)
(* exception.  Thresholds and the sample ratio are slider values with step *)
(* 0.01 and are kept in hundredths; comparisons and the product of the     *)
(* sampling step are exact, which is what double precision computes for    *)
(* the values of the model.                                                *)
(***************************************************************************)
EXTENDS Integers, Sequences, FiniteSets, TLC

VARIABLES
    viewer,     \* which script runs: "app" (app.py) or "streamlit" (streamlit.py)
    pc,         \* position of the current script run
    file,       \* the uploaded file (st.file_uploader), kept across reruns
    tmpExists,  \* the temporary .nii file written by this run is on disk
    tmpUnlinks, \* how many times this run deleted its temporary file
    mri,        \* mri_data as returned by load_nifti (NoData before loading)
    bt,         \* brain_threshold slider, hundredths
    tt,         \* tumor_threshold slider, hundredths
    ratio,      \* sample_ratio slider, hundredths (app.py only)
    mid,        \* the three views drawn by visualize_2d_slices
    sel,        \* the three views drawn by the interactive slice selectors
    fig3d,      \* the last 3D figure handed to the renderer
    engine,     \* the off-screen engine of save_visualization
    image,      \* the rendered image file of save_visualization
    err,        \* what st.error reported in this run
    pop,        \* sampling study: population of a class, len(x_brain) / len(x_tumor)
    cls,        \* sampling study: "brain" or "tumor"
    kept        \* sampling study: points kept after sampling (-1 before)

vars == <<viewer, pc, file, tmpExists, tmpUnlinks, mri, bt, tt, ratio, mid, sel,
          fig3d, engine, image, err, pop, cls, kept>>

pipeVars == <<viewer, pc, file, tmpExists, tmpUnlinks, mri, bt, tt, ratio, mid, sel,
              fig3d, engine, image, err>>

sampleVars == <<pop, cls, kept>>

----------------------------------------------------------------------------
(* Inputs                                                                   *)

\* Shape of every 3-dimensional volume of the model, mri_data.shape.
Shape == <<2, 2, 1>>

\* Largest raw intensity of a voxel.
MaxIntensity == 3

\* Raw voxel intensities: negative, zero, and two positive levels.
Intensities == {0 - 1, 0, 1, MaxIntensity}

\* Largest class population of the sampling study.
MaxPop == 600

Coords == (0 .. Shape[1] - 1) \X (0 .. Shape[2] - 1) \X (0 .. Shape[3] - 1)

Volumes == [Coords -> Intensities]

\* An uploaded file: a 3D volume, a file nibabel cannot read, or a 4D
\* (time-series) volume, of which only the number of dimensions matters.
ZeroVolume == [c \in Coords |-> 0]

Files == [kind : {"volume"}, vol : Volumes]
            \cup [kind : {"corrupt", "nd4"}, vol : {ZeroVolume}]

NoData == [kind |-> "none", vol |-> ZeroVolume]

\* Slider values that are tried, hundredths.  Each set holds the ends of
\* the slider's range and its default.
AppBrainLevels == {0, 10, 50}
AppTumorLevels == {30, 60, 90}
AppRatioLevels == {1, 20}
StBrainLevels == {1, 10, 100}
StTumorLevels == {10, 60, 100}
SampleRatios == 1 .. 20

----------------------------------------------------------------------------
(* Floating-point values and comparisons                                    *)

NaN == <<0, 0>>
PosInf == <<1, 0>>
NegInf == <<0 - 1, 0>>

\* numpy true division n / d of two numbers.
Div(n, d) ==
    IF d > 0 THEN <<n, d>>
    ELSE IF d < 0 THEN <<0 - n, 0 - d>>
    ELSE IF n = 0 THEN NaN
    ELSE IF n > 0 THEN PosInf ELSE NegInf

\* A raw intensity read as a float.
Raw(v) == <<v, 1>>

\* a > k/100 and a <= k/100; every comparison with NaN is false.
Gt(a, k) == IF a[2] > 0 THEN a[1] * 100 > k * a[2] ELSE a = PosInf

Le(a, k) == IF a[2] > 0 THEN a[1] * 100 <= k * a[2] ELSE a = NegInf

\* Two floats are the same number (NaN is no number).
SameValue(a, b) ==
    IF a[2] > 0 /\ b[2] > 0 THEN a[1] * b[2] = b[1] * a[2]
    ELSE a = b /\ a # NaN

Max(a, b) == IF a >= b THEN a ELSE b

Min(a, b) == IF a <= b THEN a ELSE b

\* a < k/100.
Lt(a, k) == IF a[2] > 0 THEN a[1] * 100 < k * a[2] ELSE a = NegInf

\* n/d rounded to the nearest integer, a tie rounded up, or to the even side.
RoundHalfUp(n, d) == (2 * n + d) \div (2 * d)

RoundHalfEven(n, d) ==
    IF 2 * (n % d) = d /\ (n \div d) % 2 = 0 THEN n \div d ELSE RoundHalfUp(n, d)

MaxOf(vol) == CHOOSE m \in {vol[c] : c \in Coords} : \A c \in Coords : vol[c] <= m

MinOf(vol) == CHOOSE m \in {vol[c] : c \in Coords} : \A c \in Coords : vol[c] >= m

----------------------------------------------------------------------------
(* The array computations                                                   *)

\* app.py normalize_data: (mri_data - min) / (max - min), element by element.
normalize_data(vol) ==
    LET lo == MinOf(vol)
        hi == MaxOf(vol)
    IN  [c \in Coords |-> Div(vol[c] - lo, hi - lo)]

\* streamlit.py save_visualization: mri_data = mri_data / np.max(mri_data).
normalize_by_max(vol) == [c \in Coords |-> Div(vol[c], MaxOf(vol))]

\* The raw array read as floats (no normalisation).
AsFloats(vol) == [c \in Coords |-> Raw(vol[c])]

\* brain_mask = (mri_data > brain_threshold) & (mri_data <= tumor_threshold)
brain_mask(norm, b, t) == {c \in Coords : Gt(norm[c], b) /\ Le(norm[c], t)}

\* Mutant of tumor_mask: the comparison reversed, mri_data < tumor_threshold.
tumor_mask_reversed(norm, t) == {c \in Coords : Lt(norm[c], t)}

\* tumor_mask = mri_data > tumor_threshold
tumor_mask(norm, t) == {c \in Coords : Gt(norm[c], t)}

\* The minimum number of points kept, and the tumor class's ratio factor.
FloorCount == 100
TumorFactor == 2

\* Mutant of NumPoints: the product rounded to the nearest integer.
NumPointsRounded(p, k, m) == Max(FloorCount, RoundHalfUp(p * k * m, 100))

\* num_points = max(100, int(len(x) * sample_ratio [* 2])); int() truncates.
NumPoints(p, k, m) == Max(FloorCount, (p * k * m) \div 100)

\* np.random.choice is called: the class is not empty and num_points < len.
SampleApplied(p, k, m) == p > 0 /\ NumPoints(p, k, m) < p

\* The number of points of a class after the sampling step.
SampleCount(p, k, m) == IF SampleApplied(p, k, m) THEN NumPoints(p, k, m) ELSE p

\* The point sets the sampling step can produce: np.random.choice without
\* replacement picks any subset of num_points points.
Sampled(pts, k, m) ==
    IF SampleApplied(Cardinality(pts), k, m)
    THEN {s \in SUBSET pts : Cardinality(s) = NumPoints(Cardinality(pts), k, m)}
    ELSE {pts}

\* Mutant of TumorTraceGiven: the tumor trace appended without the guard.
TumorTraceAlways(pts) == TRUE

\* app.py: "if len(x_tumor) > 0" before the tumor trace is appended to data.
TumorTraceGiven(pts) == Cardinality(pts) > 0

\* streamlit.py: "if len(x_tumor) > 0" before mlab.points3d of the tumor.
TumorPointsGiven(pts) == Cardinality(pts) > 0

\* app.py visualize_3d_mri, with the sampled point sets bp and tp.
visualize_3d_mri(vol, b, t, k, bp, tp) ==
    LET norm == normalize_data(vol)
        brain == brain_mask(norm, b, t)
        tumor == tumor_mask(norm, t)
    IN  [by |-> "app", vol |-> vol, bt |-> b, tt |-> t, norm |-> norm,
         brain |-> brain, tumor |-> tumor,
         brainSampled |-> SampleApplied(Cardinality(brain), k, 1),
         tumorSampled |-> SampleApplied(Cardinality(tumor), k, TumorFactor),
         brainPts |-> bp, tumorPts |-> tp,
         traces |-> {"brain"} \cup (IF TumorTraceGiven(tp) THEN {"tumor"} ELSE {})]

\* streamlit.py save_visualization, lines 28-53: no sampling.
save_visualization(vol, b, t) ==
    LET norm == normalize_by_max(vol)
        brain == brain_mask(norm, b, t)
        tumor == tumor_mask(norm, t)
    IN  [by |-> "streamlit", vol |-> vol, bt |-> b, tt |-> t, norm |-> norm,
         brain |-> brain, tumor |-> tumor,
         brainSampled |-> FALSE, tumorSampled |-> FALSE,
         brainPts |-> brain, tumorPts |-> tumor,
         traces |-> {"brain"} \cup (IF TumorPointsGiven(tumor) THEN {"tumor"} ELSE {})]

NoFigure == [by |-> "none"]

\* The three cross-sections, as two-dimensional arrays indexed (row, col).
\* a[x, :, :].T
SagittalSlice(a, x) ==
    [p \in (0 .. Shape[3] - 1) \X (0 .. Shape[2] - 1) |-> a[<<x, p[2], p[1]>>]]

\* a[:, y, :].T
CoronalSlice(a, y) ==
    [p \in (0 .. Shape[3] - 1) \X (0 .. Shape[1] - 1) |-> a[<<p[2], y, p[1]>>]]

\* a[:, :, z]
AxialSlice(a, z) ==
    [p \in (0 .. Shape[1] - 1) \X (0 .. Shape[2] - 1) |-> a[<<p[1], p[2], z>>]]

CrossSection(a, axis, i) ==
    CASE axis = "X" -> SagittalSlice(a, i)
      [] axis = "Y" -> CoronalSlice(a, i)
      [] axis = "Z" -> AxialSlice(a, i)

\* overlay_tumor: the mask of a slice, and whether the overlay is drawn.
overlay_tumor(slice, t) ==
    LET mask == [p \in DOMAIN slice |-> Gt(slice[p], t)]
    IN  [mask |-> mask, drawn |-> \E p \in DOMAIN slice : mask[p]]

\* One displayed view: ax.imshow(data) followed by overlay_tumor(ax, data, t).
View(axis, i, data, t) ==
    [axis |-> axis, index |-> i, data |-> data, overlay |-> overlay_tumor(data, t)]

\* visualize_2d_slices: the middle slice of the normalised volume per axis.
visualize_2d_slices(vol, t) ==
    LET norm == normalize_data(vol)
        x_mid == Shape[1] \div 2
        y_mid == Shape[2] \div 2
        z_mid == Shape[3] \div 2
    IN  << View("X", x_mid, SagittalSlice(norm, x_mid), t),
           View("Y", y_mid, CoronalSlice(norm, y_mid), t),
           View("Z", z_mid, AxialSlice(norm, z_mid), t) >>

\* The interactive selectors, lines 157-176: slices of mri_data as loaded.
slice_selectors(vol, x, y, z, t) ==
    LET data == AsFloats(vol)
    IN  << View("X", x, SagittalSlice(data, x), t),
           View("Y", y, CoronalSlice(data, y), t),
           View("Z", z, AxialSlice(data, z), t) >>

----------------------------------------------------------------------------
(* The script runs                                                          *)

NoError == [exc |-> "none", reported |-> FALSE]

Raised(name) == [exc |-> name, reported |-> FALSE]

Init ==
    /\ viewer \in {"app", "streamlit"}
    /\ pc = "idle"
    /\ file = NoData
    /\ tmpExists = FALSE
    /\ tmpUnlinks = 0
    /\ mri = NoData
    /\ bt = 10
    /\ tt = 60
    /\ ratio = 5
    /\ mid = <<>>
    /\ sel = <<>>
    /\ fig3d = NoFigure
    /\ engine = "off"
    /\ image = "none"
    /\ err = NoError
    /\ pop = 0
    /\ cls = "none"
    /\ kept = 0 - 1

\* A run of the script starts with an uploaded file: the first run after the
\* upload, or a rerun (any widget interaction) with the same file still in
\* the uploader.  The upload is written to a fresh temporary file.  What the
\* renderer was last handed (fig3d) stays on the page until it is replaced.
StartRun(f) ==
    /\ pc \in {"idle", "done"}
    /\ pc = "done" => f = file
    /\ file' = f
    /\ tmpExists' = TRUE
    /\ tmpUnlinks' = 0
    /\ mri' = NoData
    /\ mid' = <<>>
    /\ sel' = <<>>
    /\ engine' = "off"
    /\ image' = "none"
    /\ err' = NoError
    /\ pc' = "load"
    /\ UNCHANGED <<viewer, bt, tt, ratio, fig3d, sampleVars>>

\* app.py lines 113-118.
AppUpload == viewer = "app" /\ \E f \in Files : StartRun(f)

\* app.py lines 120-122: nib.load raises on a file it cannot read.
AppLoad ==
    /\ viewer = "app" /\ pc = "load"
    /\ IF file.kind = "corrupt"
       THEN /\ err' = Raised("ImageFileError")
            /\ pc' = "except"
            /\ mri' = mri
       ELSE /\ mri' = file
            /\ pc' = "sliders"
            /\ err' = err
    /\ UNCHANGED <<viewer, file, tmpExists, tmpUnlinks, bt, tt, ratio, mid, sel,
                   fig3d, engine, image, sampleVars>>

\* app.py lines 142-145: the sidebar sliders.
AppSliders ==
    /\ viewer = "app" /\ pc = "sliders"
    /\ \E b \in AppBrainLevels, t \in AppTumorLevels, k \in AppRatioLevels :
          /\ bt' = b
          /\ tt' = t
          /\ ratio' = k
    /\ pc' = "tab1"
    /\ UNCHANGED <<viewer, file, tmpExists, tmpUnlinks, mri, mid, sel, fig3d,
                   engine, image, err, sampleVars>>

\* app.py lines 149-152: visualize_2d_slices.  A volume that is not
\* 3-dimensional fails at "x_mid, y_mid, z_mid = np.array(shape) // 2".
AppSlices2D ==
    /\ viewer = "app" /\ pc = "tab1"
    /\ IF mri.kind = "nd4"
       THEN /\ err' = Raised("ValueError")
            /\ pc' = "except"
            /\ mid' = mid
       ELSE /\ mid' = visualize_2d_slices(mri.vol, tt)
            /\ pc' = "selectors"
            /\ err' = err
    /\ UNCHANGED <<viewer, file, tmpExists, tmpUnlinks, mri, bt, tt, ratio, sel,
                   fig3d, engine, image, sampleVars>>

\* app.py lines 154-176: the three slice sliders run from 0 to shape - 1.
AppSelectors ==
    /\ viewer = "app" /\ pc = "selectors"
    /\ \E x \in 0 .. Shape[1] - 1, y \in 0 .. Shape[2] - 1, z \in 0 .. Shape[3] - 1 :
          sel' = slice_selectors(mri.vol, x, y, z, tt)
    /\ pc' = "tab2"
    /\ UNCHANGED <<viewer, file, tmpExists, tmpUnlinks, mri, bt, tt, ratio, mid,
                   fig3d, engine, image, err, sampleVars>>

\* app.py lines 178-181: visualize_3d_mri and st.plotly_chart.
AppView3D ==
    /\ viewer = "app" /\ pc = "tab2"
    /\ LET norm == normalize_data(mri.vol)
       IN  \E bp \in Sampled(brain_mask(norm, bt, tt), ratio, 1),
              tp \in Sampled(tumor_mask(norm, tt), ratio, TumorFactor) :
              fig3d' = visualize_3d_mri(mri.vol, bt, tt, ratio, bp, tp)
    /\ pc' = "finally"
    /\ UNCHANGED <<viewer, file, tmpExists, tmpUnlinks, mri, bt, tt, ratio, mid,
                   sel, engine, image, err, sampleVars>>

\* app.py lines 183-184: except Exception, st.error.
AppExcept ==
    /\ viewer = "app" /\ pc = "except"
    /\ err' = [err EXCEPT !.reported = TRUE]
    /\ pc' = "finally"
    /\ UNCHANGED <<viewer, file, tmpExists, tmpUnlinks, mri, bt, tt, ratio, mid,
                   sel, fig3d, engine, image, sampleVars>>

\* app.py lines 186-187: finally, os.unlink(tmp_file_path).
AppFinally ==
    /\ viewer = "app" /\ pc = "finally"
    /\ tmpExists' = FALSE
    /\ tmpUnlinks' = tmpUnlinks + 1
    /\ pc' = "done"
    /\ UNCHANGED <<viewer, file, mri, bt, tt, ratio, mid, sel, fig3d, engine,
                   image, err, sampleVars>>

\* streamlit.py lines 75-82.
StUpload == viewer = "streamlit" /\ \E f \in Files : StartRun(f)

\* streamlit.py lines 84-85.
StLoad ==
    /\ viewer = "streamlit" /\ pc = "load"
    /\ IF file.kind = "corrupt"
       THEN /\ err' = Raised("ImageFileError")
            /\ pc' = "load_except"
            /\ mri' = mri
       ELSE /\ mri' = file
            /\ pc' = "sliders"
            /\ err' = err
    /\ UNCHANGED <<viewer, file, tmpExists, tmpUnlinks, bt, tt, ratio, mid, sel,
                   fig3d, engine, image, sampleVars>>

\* streamlit.py lines 87-94.
StSliders ==
    /\ viewer = "streamlit" /\ pc = "sliders"
    /\ \E b \in StBrainLevels, t \in StTumorLevels :
          /\ bt' = b
          /\ tt' = t
    /\ pc' = "button"
    /\ UNCHANGED <<viewer, file, tmpExists, tmpUnlinks, mri, ratio, mid, sel,
                   fig3d, engine, image, err, sampleVars>>

\* streamlit.py line 96: the visualisation runs only when the button was
\* pressed.
StButton ==
    /\ viewer = "streamlit" /\ pc = "button"
    /\ \E pressed \in BOOLEAN : pc' = IF pressed THEN "generate" ELSE "remove"
    /\ UNCHANGED <<viewer, file, tmpExists, tmpUnlinks, mri, bt, tt, ratio, mid,
                   sel, fig3d, engine, image, err, sampleVars>>

\* streamlit.py lines 19-26, entered from the call at lines 99-104.
StEngineStart ==
    /\ viewer = "streamlit" /\ pc = "generate"
    /\ engine' = "started"
    /\ pc' = "render"
    /\ UNCHANGED <<viewer, file, tmpExists, tmpUnlinks, mri, bt, tt, ratio, mid,
                   sel, fig3d, image, err, sampleVars>>

\* streamlit.py lines 28-62.  For a volume that is not 3-dimensional
\* "x_brain, y_brain, z_brain = np.where(brain_mask)" raises, and the
\* function is left before scene.save and engine.stop().
StRender ==
    /\ viewer = "streamlit" /\ pc = "render"
    /\ IF mri.kind = "nd4"
       THEN /\ err' = Raised("ValueError")
            /\ pc' = "gen_except"
            /\ UNCHANGED <<fig3d, image, engine>>
       ELSE /\ fig3d' = save_visualization(mri.vol, bt, tt)
            /\ image' = "written"
            /\ engine' = "stopped"
            /\ pc' = "show"
            /\ err' = err
    /\ UNCHANGED <<viewer, file, tmpExists, tmpUnlinks, mri, bt, tt, ratio, mid,
                   sel, sampleVars>>

\* streamlit.py lines 105-106: st.image, os.remove(output_path).
StShowImage ==
    /\ viewer = "streamlit" /\ pc = "show"
    /\ image' = "removed"
    /\ pc' = "remove"
    /\ UNCHANGED <<viewer, file, tmpExists, tmpUnlinks, mri, bt, tt, ratio, mid,
                   sel, fig3d, engine, err, sampleVars>>

\* streamlit.py lines 107-108.
StGenExcept ==
    /\ viewer = "streamlit" /\ pc = "gen_except"
    /\ err' = [err EXCEPT !.reported = TRUE]
    /\ pc' = "remove"
    /\ UNCHANGED <<viewer, file, tmpExists, tmpUnlinks, mri, bt, tt, ratio, mid,
                   sel, fig3d, engine, image, sampleVars>>

\* streamlit.py lines 110-111.
StLoadExcept ==
    /\ viewer = "streamlit" /\ pc = "load_except"
    /\ err' = [err EXCEPT !.reported = TRUE]
    /\ pc' = "remove"
    /\ UNCHANGED <<viewer, file, tmpExists, tmpUnlinks, mri, bt, tt, ratio, mid,
                   sel, fig3d, engine, image, sampleVars>>

\* streamlit.py line 113: os.remove(temp_path).
StRemoveTemp ==
    /\ viewer = "streamlit" /\ pc = "remove"
    /\ tmpExists' = FALSE
    /\ tmpUnlinks' = tmpUnlinks + 1
    /\ pc' = "done"
    /\ UNCHANGED <<viewer, file, mri, bt, tt, ratio, mid, sel, fig3d, engine,
                   image, err, sampleVars>>

Next ==
    \/ AppUpload
    \/ AppLoad
    \/ AppSliders
    \/ AppSlices2D
    \/ AppSelectors
    \/ AppView3D
    \/ AppExcept
    \/ AppFinally
    \/ StUpload
    \/ StLoad
    \/ StSliders
    \/ StButton
    \/ StEngineStart
    \/ StRender
    \/ StShowImage
    \/ StGenExcept
    \/ StLoadExcept
    \/ StRemoveTemp

Spec == Init /\ [][Next]_vars

----------------------------------------------------------------------------
(* The sampling step on its own, for class populations of any size          *)

SampleInit ==
    /\ viewer = "app"
    /\ pc = "sample"
    /\ file = NoData
    /\ tmpExists = FALSE
    /\ tmpUnlinks = 0
    /\ mri = NoData
    /\ bt = 10
    /\ tt = 60
    /\ ratio \in SampleRatios
    /\ mid = <<>>
    /\ sel = <<>>
    /\ fig3d = NoFigure
    /\ engine = "off"
    /\ image = "none"
    /\ err = NoError
    /\ pop \in 0 .. MaxPop
    /\ cls \in {"brain", "tumor"}
    /\ kept = 0 - 1

\* app.py lines 61-66: the brain class, sampled at sample_ratio.
SampleBrain ==
    /\ pc = "sample" /\ cls = "brain"
    /\ kept' = SampleCount(pop, ratio, 1)
    /\ pc' = "sampled"
    /\ UNCHANGED <<viewer, file, tmpExists, tmpUnlinks, mri, bt, tt, ratio, mid,
                   sel, fig3d, engine, image, err, pop, cls>>

\* app.py lines 71-76: the tumor class, sampled at sample_ratio * 2.
SampleTumor ==
    /\ pc = "sample" /\ cls = "tumor"
    /\ kept' = SampleCount(pop, ratio, TumorFactor)
    /\ pc' = "sampled"
    /\ UNCHANGED <<viewer, file, tmpExists, tmpUnlinks, mri, bt, tt, ratio, mid,
                   sel, fig3d, engine, image, err, pop, cls>>

SampleNext == SampleBrain \/ SampleTumor

SampleSpec == SampleInit /\ [][SampleNext]_vars

----------------------------------------------------------------------------
(* Properties                                                               *)

HasFigure == fig3d.by # "none"

Flat(vol) == MaxOf(vol) = MinOf(vol)

Factor(c) == IF c = "tumor" THEN 2 ELSE 1

\* C1, as claimed: for a class with population P > 0 and effective ratio r
\* (sample_ratio for the brain class, 2 x sample_ratio for the tumor class)
\* the number of points kept is min(P, max(100, round(P * r))), whichever
\* way round() breaks a tie.
C1_KeptIsRounded ==
    (pc = "sampled" /\ pop > 0) =>
        LET n == pop * ratio * Factor(cls)
        IN  \/ kept = Min(pop, Max(100, RoundHalfUp(n, 100)))
            \/ kept = Min(pop, Max(100, RoundHalfEven(n, 100)))

\* C1, amended: the number of points kept is min(P, max(100, trunc(P * r))),
\* the product truncated toward zero (int) instead of rounded.
C1_KeptIsTruncated ==
    (pc = "sampled" /\ pop > 0) =>
        kept = Min(pop, Max(100, (pop * ratio * Factor(cls)) \div 100))

\* C1 witness: sampling was applied above the floor of 100, to a product
\* whose fraction is at least one half, where rounding and truncation differ.
C1_SampledAboveFloor ==
    /\ pc = "sampled"
    /\ kept > 100
    /\ kept < pop
    /\ 2 * ((pop * ratio * Factor(cls)) % 100) > 100

\* C2, as claimed: every voxel of a classified volume is in exactly one of
\* Background (value <= brain_threshold), Tissue (brain_threshold < value
\* <= tumor_threshold) and Region (value > tumor_threshold); the brain mask
\* and the tumor mask are never both true, and a voxel in neither mask has
\* a value <= brain_threshold.
C2_ExactlyOneClass ==
    HasFigure =>
        \A c \in Coords :
            LET v == fig3d.norm[c]
                background == Le(v, fig3d.bt)
                tissue == Gt(v, fig3d.bt) /\ Le(v, fig3d.tt)
                region == Gt(v, fig3d.tt)
            IN  /\ Cardinality({k \in {"b", "t", "r"} :
                       \/ k = "b" /\ background
                       \/ k = "t" /\ tissue
                       \/ k = "r" /\ region}) = 1
                /\ ~(c \in fig3d.brain /\ c \in fig3d.tumor)
                /\ (c \notin fig3d.brain /\ c \notin fig3d.tumor) => background

\* C3, as claimed: a flat volume (max = min) ends in a reported
\* degenerate-range error; no slice view and no classification is ever
\* computed from its normalisation.
C3_FlatVolumeRejected ==
    /\ mid # <<>> => ~Flat(mri.vol)
    /\ HasFigure => ~Flat(fig3d.vol)
    /\ (mri.kind = "volume" /\ Flat(mri.vol) /\ pc = "done") =>
           (err.exc = "DegenerateRangeError" /\ err.reported)

\* C4, as claimed: no point set is computed from a threshold pair with
\* brain_threshold >= tumor_threshold or a threshold outside [0, 1].
C4_ThresholdsValidated ==
    HasFigure => (0 <= fig3d.bt /\ fig3d.bt < fig3d.tt /\ fig3d.tt <= 100)

\* C5, as claimed: for a volume that is not flat, every value the classifier
\* reads lies in [0, 1], a voxel holding the minimum reads 0 and a voxel
\* holding the maximum reads 1, in both viewers.
C5_NormalizedRange ==
    (HasFigure /\ ~Flat(fig3d.vol)) =>
        \A c \in Coords :
            LET v == fig3d.norm[c]
            IN  /\ v[2] > 0 /\ 0 <= v[1] /\ v[1] <= v[2]
                /\ fig3d.vol[c] = MinOf(fig3d.vol) => SameValue(v, Raw(0))
                /\ fig3d.vol[c] = MaxOf(fig3d.vol) => SameValue(v, Raw(1))

\* A displayed view shows the cross-section of the normalised volume, and
\* its overlay mask has the slice's shape and is true exactly where the
\* normalised value is > tumor_threshold.
OverlayOfNormalized(view) ==
    LET expected == CrossSection(normalize_data(mri.vol), view.axis, view.index)
    IN  /\ DOMAIN view.data = DOMAIN expected
        /\ DOMAIN view.overlay.mask = DOMAIN expected
        /\ \A p \in DOMAIN expected :
              /\ view.data[p] = expected[p] \/ SameValue(view.data[p], expected[p])
              /\ view.overlay.mask[p] <=> Gt(expected[p], tt)

\* C6, as claimed: the three middle views and the three interactive views
\* all are overlays of slices of the normalised volume.
C6_OverlaysOfNormalizedSlices ==
    /\ \A i \in DOMAIN mid : OverlayOfNormalized(mid[i])
    /\ \A i \in DOMAIN sel : OverlayOfNormalized(sel[i])

\* C8: when a figure is replaced by one of the same normalised volume with
\* the same brain_threshold and a tumor_threshold at least as high, the
\* Region class (before sampling) has not grown and the Tissue class has not
\* shrunk.
C8_RegionThresholdMonotone ==
    [][ (/\ HasFigure
         /\ fig3d'.by = fig3d.by
         /\ fig3d'.norm = fig3d.norm
         /\ fig3d'.bt = fig3d.bt
         /\ fig3d'.tt >= fig3d.tt)
        => /\ Cardinality(fig3d'.tumor) <= Cardinality(fig3d.tumor)
           /\ Cardinality(fig3d'.brain) >= Cardinality(fig3d.brain) ]_vars

\* C8 witness: a rerun is about to classify the volume of the figure on the
\* page again, with the same brain_threshold and a higher tumor_threshold
\* that moves voxels out of the Region class.
C8_ThresholdRaised ==
    /\ pc = "tab2"
    /\ fig3d.by = "app"
    /\ fig3d.vol = mri.vol
    /\ fig3d.bt = bt
    /\ tt > fig3d.tt
    /\ Cardinality(fig3d.tumor) > 1
    /\ Cardinality(fig3d.brain) = 0
    /\ \E c \in fig3d.tumor : ~Gt(fig3d.norm[c], tt) /\ Gt(fig3d.norm[c], bt)

\* C9: a figure of a volume with no voxel above tumor_threshold has an empty
\* tumor point set that was not sampled, has the brain trace and no tumor
\* trace, and the run that made it raised no error.
C9_EmptyRegionSafe ==
    (HasFigure /\ \A c \in Coords : ~Gt(fig3d.norm[c], fig3d.tt)) =>
        /\ fig3d.tumorPts = {}
        /\ ~fig3d.tumorSampled
        /\ fig3d.traces = {"brain"}
        /\ (pc \in {"finally", "show"} /\ mri.kind = "volume") => err = NoError

\* C9 witness: a 3D view of a volume that is not flat was just made, and no
\* voxel of it is above tumor_threshold.
C9_EmptyRegionFigure ==
    /\ pc = "show"
    /\ HasFigure
    /\ fig3d.vol = mri.vol
    /\ ~Flat(fig3d.vol)
    /\ fig3d.tumor = {}
    /\ fig3d.brain # {}

\* C10, as claimed: at the end of every run the temporary file was deleted
\* exactly once, a started engine was stopped, and a written image file was
\* removed.
C10_ResourcesReleased ==
    pc = "done" =>
        /\ ~tmpExists
        /\ tmpUnlinks = 1
        /\ engine \in {"off", "stopped"}
        /\ image \in {"none", "removed"}

====
